---- MODULE Spec2Model ----
(***************************************************************************)
(* State-machine model of the Logger class of @tfpkgr/logger               *)
(* (src/src/index.ts) and of the LoggerLevels enum (values.ts, kept as     *)
(* src/unnamed/part_000).                                                   *)
(*                                                                         *)
(* Optional values (string | undefined, object | null | undefined) are     *)
(* sequences of length 0 or 1: <<>> is undefined/null, <<v>> is v.         *)
(* A JavaScript value that can be a number, a string, a function, NaN or   *)
(* undefined is a record [t, n, s].                                        *)
(***************************************************************************)
EXTENDS Integers, Sequences, FiniteSets, TLC

\* ------------------------------------------------------------------ bounds
MaxLoggers == 3          \* instances in the trace-chain specification
MaxTimerLoggers == 2     \* instances in the timer specification
MaxPipelineLoggers == 1  \* instances in the pipeline specification
MaxNow == 3              \* the clock stops here
MaxLines == 1            \* lines the log files can hold in all

\* -------------------------------------------------------- JavaScript values
None == <<>>
Some(v) == <<v>>

Num(n) == [t |-> "number", n |-> n, s |-> ""]
Str(s) == [t |-> "string", n |-> 0, s |-> s]
Fn(name) == [t |-> "function", n |-> 0, s |-> name]
NaN == [t |-> "NaN", n |-> 0, s |-> ""]
Undefined == [t |-> "undefined", n |-> 0, s |-> ""]

Digits == "0123456789"

RECURSIVE NatToStr(_)
NatToStr(n) ==
    IF n < 10 THEN SubSeq(Digits, n + 1, n + 1)
    ELSE NatToStr(n \div 10) \o SubSeq(Digits, (n % 10) + 1, (n % 10) + 1)

\* Number.prototype.toString / template-literal conversion of an integer.
IntToStr(n) == IF n < 0 THEN "-" \o NatToStr(-n) ELSE NatToStr(n)

\* The characters the model's strings are made of, in UTF-16 code-unit order.
CodeUnits ==
    " ()-./0123456789:>ABCDEFGHIJKLMNOPQRSTUVWXYZ[]_abcdefghijklmnopqrstuvwxyz{|}"

CharCode(c) == CHOOSE i \in 1..Len(CodeUnits) : SubSeq(CodeUnits, i, i) = c

\* String < String: lexicographic by code unit.
RECURSIVE StrLess(_, _)
StrLess(a, b) ==
    IF b = "" THEN FALSE
    ELSE IF a = "" THEN TRUE
    ELSE LET ca == SubSeq(a, 1, 1)
             cb == SubSeq(b, 1, 1)
         IN  IF ca # cb THEN CharCode(ca) < CharCode(cb)
             ELSE StrLess(SubSeq(a, 2, Len(a)), SubSeq(b, 2, Len(b)))

\* ToPrimitive: a function becomes its source text.
ToPrimitive(v) ==
    IF v.t = "function" THEN Str("function " \o v.s \o "() { [native code] }")
    ELSE v

\* ToNumber of a primitive: only decimal numerals are numbers.
ToNumber(v) ==
    IF v.t = "number" THEN v
    ELSE IF v.t = "string" /\ \E k \in 0..10 : IntToStr(k) = v.s
         THEN Num(CHOOSE k \in 0..10 : IntToStr(k) = v.s)
    ELSE NaN

\* The abstract relational comparison a < b.
JsLess(a, b) ==
    LET pa == ToPrimitive(a)
        pb == ToPrimitive(b)
    IN  IF pa.t = "string" /\ pb.t = "string" THEN StrLess(pa.s, pb.s)
        ELSE LET na == ToNumber(pa)
                 nb == ToNumber(pb)
             IN  na.t = "number" /\ nb.t = "number" /\ na.n < nb.n

\* ToBoolean.
Truthy(v) ==
    CASE v.t = "number" -> v.n # 0
      [] v.t = "string" -> v.s # ""
      [] v.t = "function" -> TRUE
      [] OTHER -> FALSE

\* Template-literal conversion `${v}` of a number-like value.
NumToStr(v) == IF v.t = "number" THEN IntToStr(v.n) ELSE "NaN"

\* `${p}` of an optional string: undefined prints as "undefined".
OptToStr(p) == IF p = None THEN "undefined" ELSE p[1]

\* Truthiness of an optional string (undefined and "" are falsy).
OptTruthy(p) == p # None /\ p[1] # ""

\* Properties every plain object ({} or an enum object) inherits from
\* Object.prototype; reading one of them yields a function.
PrototypeKeys == {"toString", "constructor", "valueOf", "hasOwnProperty"}

ObjectPrototype(key) == IF key \in PrototypeKeys THEN Fn(key) ELSE Undefined

\* ------------------------------------------------------------ LoggerLevels
\* The enum members in rank order: LevelNames[r + 1] has rank r.
LevelNames ==
    << "SILLY", "TRACE", "DEBUG", "VERBOSE", "INFO", "TIME",
       "HTTP", "SUCCESS", "WARN", "ERROR", "FATAL" >>

Ranks == 0..(Len(LevelNames) - 1)

IsLevel(name) == \E r \in Ranks : LevelNames[r + 1] = name

Rank(name) == CHOOSE r \in Ranks : LevelNames[r + 1] = name

\* LoggerLevels[key]: a numeric enum is an object with the forward mapping
\* name -> rank, the reverse mapping "rank" -> name, and Object.prototype.
LoggerLevels(key) ==
    IF IsLevel(key) THEN Num(Rank(key))
    ELSE IF \E r \in Ranks : IntToStr(r) = key
         THEN Str(LevelNames[(CHOOSE r \in Ranks : IntToStr(r) = key) + 1])
    ELSE ObjectPrototype(key)

\* String.prototype.padStart(width) with spaces.
RECURSIVE PadStart(_, _)
PadStart(s, width) == IF Len(s) >= width THEN s ELSE PadStart(" " \o s, width)

\* String.prototype.padStart(width, '0').
RECURSIVE PadZero(_, _)
PadZero(s, width) == IF Len(s) >= width THEN s ELSE PadZero("0" \o s, width)

\* Array.prototype.join(' ').
RECURSIVE Join(_)
Join(ms) ==
    IF ms = <<>> THEN ""
    ELSE IF Len(ms) = 1 THEN ms[1]
    ELSE ms[1] \o " " \o Join(Tail(ms))

\* Array.prototype.reverse.
Reverse(s) == [i \in 1..Len(s) |-> s[Len(s) + 1 - i]]

\* Array.prototype.includes / String.prototype.includes.
Includes(s, sub) ==
    \E i \in 1..(Len(s) - Len(sub) + 1) : SubSeq(s, i, i + Len(sub) - 1) = sub

\* ------------------------------------------------------------ LoggerColors
LoggerColors(token) ==
    CASE token = "Reset" -> "\\x1b[0m"
      [] token = "FgRed" -> "\\x1b[31m"
      [] token = "FgGreen" -> "\\x1b[32m"
      [] token = "FgYellow" -> "\\x1b[33m"
      [] token = "FgBlue" -> "\\x1b[34m"
      [] token = "FgMagenta" -> "\\x1b[35m"
      [] token = "FgCyan" -> "\\x1b[36m"
      [] token = "FgWhite" -> "\\x1b[37m"
      [] token = "FgGray" -> "\\x1b[90m"
      [] token = "BgBlack" -> "\\x1b[40m"
      [] token = "BgRed" -> "\\x1b[41m"

\* ------------------------------------------------------------- environment
\* process.cwd() and __filename of the compiled logger.
Cwd == "/srv/app"
Filename == "/srv/app/node_modules/logger/index.js"

\* A call-stack frame: file name, line number and function name, each
\* possibly missing.  SelfFrame is a frame inside the logger's own file.
SelfFrame == [file |-> Some(Filename), line |-> Some(90), fn |-> Some("child")]

\* The frames of the code that calls into the logger (outermost last).
MainStack ==
    << [file |-> Some("/srv/app/main.ts"), line |-> Some(3), fn |-> Some("main")] >>
JobStack ==
    << [file |-> None, line |-> None, fn |-> None],
       [file |-> Some("/srv/app/lib/job.ts"), line |-> Some(7), fn |-> None] >>
UserStacks == {MainStack, JobStack}

\* Arguments the callers pass.
CtorPrefixes == {None, Some("A")}
ChildPrefixes == {None, Some("B")}
MessageLists == { <<"m">> }
LevelArgs == {LevelNames[i] : i \in 1..Len(LevelNames)} \cup {"BOGUS", "0", "toString"}
Labels == {"x", "toString"}
Directories == {"/srv/app/.logs", "/tmp/logs"}
\* What the file system does with the mkdirSync / appendFileSync of one
\* call: both succeed, or one of them raises.
FsOutcomes == {"ok", "EACCES"}

\* path.relative(from, to) for a file below `from` (every modelled frame is).
PathRelative(from, to) ==
    IF Len(to) > Len(from) + 1 /\ SubSeq(to, 1, Len(from) + 1) = from \o "/"
    THEN SubSeq(to, Len(from) + 2, Len(to))
    ELSE to

\* Date.prototype.toISOString of an epoch-millisecond clock below one second.
ToISOString(ms) == "1970-01-01T00:00:00." \o PadZero(IntToStr(ms), 3) \o "Z"

\* getFullYear / getMonth / getDate of the same clock (UTC, first day).
DateFields(ms) == [year |-> 1970, month |-> 0, date |-> 1]

\* The directory and the file __logToFile writes to.
LogDir(directory, ms) ==
    LET d == DateFields(ms)
        year == IntToStr(d.year)
        month == PadZero(IntToStr(d.month + 1), 2)
    IN  directory \o "/" \o year \o "/" \o year \o "-" \o month

LogFile(directory, ms) ==
    LET d == DateFields(ms)
        year == IntToStr(d.year)
        month == PadZero(IntToStr(d.month + 1), 2)
        date == PadZero(IntToStr(d.date), 2)
    IN  LogDir(directory, ms) \o "/" \o year \o "-" \o month \o "-" \o date \o ".log"

\* ------------------------------------------------------------------- state
VARIABLES
    globalLogLevel,     \* Logger.globalLogLevel
    logDirectory,       \* Logger.logDirectory
    enableFileLogging,  \* Logger.enableFileLogging
    loggers,            \* the Logger instances, in creation order
    now,                \* the clock behind Date.now() and new Date()
    stdout,             \* the console.log calls made by the latest call
    files,              \* log file path -> the lines appended to it
    call,               \* the latest call of the API and how it ended
    started,            \* history: <<instance, label, time>> of pending timeStarts
    origin              \* history: how each instance was created

vars ==
    << globalLogLevel, logDirectory, enableFileLogging, loggers, now,
       stdout, files, call, started, origin >>

config == << globalLogLevel, logDirectory, enableFileLogging >>

Instances == 1..Len(loggers)

\* The record of a call: the method, the instance (0 for a static method),
\* the level it logs at, its label or level argument, the error it raised
\* ("" when it returned) and the instance it returned (0 for none).
Returned(op, self, level, arg) ==
    [op |-> op, self |-> self, level |-> level, arg |-> arg,
     threw |-> "", result |-> self]

Threw(op, self, level, arg, message) ==
    [op |-> op, self |-> self, level |-> level, arg |-> arg,
     threw |-> message, result |-> 0]

Init ==
    /\ globalLogLevel = "INFO"
    /\ logDirectory = Cwd \o "/" \o ".logs"
    /\ enableFileLogging = TRUE
    /\ loggers = <<>>
    /\ now = 1
    /\ stdout = <<>>
    /\ files = [f \in {LogFile(d, 1) : d \in Directories} |-> <<>>]
    /\ call = Returned("init", 0, "", "")
    /\ started = {}
    /\ origin = <<>>

\* ------------------------------------------------------- static mutators
\* static setLogLevel(level)
setLogLevel(level) ==
    /\ IF LoggerLevels(level) # Undefined
       THEN /\ globalLogLevel' = level
            /\ call' = Returned("setLogLevel", 0, "", level)
       ELSE /\ globalLogLevel' = globalLogLevel
            /\ call' = Threw("setLogLevel", 0, "", level,
                             "Invalid log level: " \o level)
    /\ stdout' = <<>>
    /\ UNCHANGED << logDirectory, enableFileLogging, loggers, now, files,
                    started, origin >>

\* static setLogDirectory(directory)
setLogDirectory(directory) ==
    /\ logDirectory' = directory
    /\ call' = Returned("setLogDirectory", 0, "", directory)
    /\ stdout' = <<>>
    /\ UNCHANGED << globalLogLevel, enableFileLogging, loggers, now, files,
                    started, origin >>

\* static setFileLogging(enable)
setFileLogging(enable) ==
    /\ enableFileLogging' = enable
    /\ call' = Returned("setFileLogging", 0, "", "")
    /\ stdout' = <<>>
    /\ UNCHANGED << globalLogLevel, logDirectory, loggers, now, files,
                    started, origin >>

\* ------------------------------------------------------------ construction
\* private __getCallerInfo(): `stack` holds the frames from index 2 on.
__getCallerInfo(stack) ==
    LET external == { i \in 1..Len(stack) :
                        OptTruthy(stack[i].file) /\ stack[i].file[1] # Filename }
    IN  IF external = {}
        THEN [fileName |-> "unknown" \o ":" \o IntToStr(-1), method |-> "unknown"]
        ELSE LET callSite == stack[CHOOSE i \in external : \A j \in external : i <= j]
                 fileName == callSite.file[1]
                 callerFile == PathRelative(Cwd, fileName)
                 callerMethod ==
                     IF OptTruthy(callSite.fn) THEN callSite.fn[1] ELSE "anonymous"
                 lineNumber ==
                     IF ~Includes(fileName, "logger.ts") THEN callSite.line ELSE None
             IN  [ fileName |->
                       (IF callerFile # "" THEN callerFile ELSE "unknown") \o ":" \o
                       (IF lineNumber # None /\ lineNumber[1] # 0
                        THEN IntToStr(lineNumber[1]) ELSE IntToStr(-1)),
                   method |-> IF callerMethod # "" THEN callerMethod ELSE "unknown" ]

\* The fields of a fresh instance: the initializers and the constructor body.
\* `stack` is the stack below the constructor's own frame.
NewLogger(prefix, stack) ==
    [ timeMap |-> [l \in {} |-> 0],
      prefix |-> prefix,
      creationInfo |-> __getCallerInfo(stack),
      parentTrace |-> None ]

\* constructor(prefix?)
constructor(prefix, stack) ==
    /\ loggers' = Append(loggers, NewLogger(prefix, stack))
    /\ origin' = Append(origin, [parent |-> 0, trace |-> FALSE, prefix |-> prefix])
    /\ call' = Returned("constructor", Len(loggers) + 1, "", "")
    /\ stdout' = <<>>
    /\ UNCHANGED << config, now, files, started >>

\* The prefix child() hands to the constructor.
ChildPrefix(parentPrefix, prefix) ==
    IF OptTruthy(parentPrefix)
    THEN Some(parentPrefix[1] \o " -> " \o OptToStr(prefix))
    ELSE prefix

\* ChildTrace, were a child without trace to keep its parent's chain.
ChildTraceInherited(parent, trace, childCreationInfo) ==
    IF trace
    THEN Some([ parentPrefix |-> parent.prefix,
                parentCreationInfo |-> parent.creationInfo,
                childCreationInfo |-> childCreationInfo,
                inheritedTrace |-> parent.parentTrace ])
    ELSE parent.parentTrace

\* The parentTrace child() gives the new instance.
ChildTrace(parent, trace, childCreationInfo) ==
    IF trace
    THEN Some([ parentPrefix |-> parent.prefix,
                parentCreationInfo |-> parent.creationInfo,
                childCreationInfo |-> childCreationInfo,
                inheritedTrace |-> parent.parentTrace ])
    ELSE None

\* child(prefix?, trace = false)
child(self, prefix, trace, stack) ==
    /\ LET this == loggers[self]
           childCreationInfo == __getCallerInfo(stack)
           newLogger == NewLogger(ChildPrefix(this.prefix, prefix),
                                  <<SelfFrame>> \o stack)
       IN  loggers' = Append(loggers,
               [newLogger EXCEPT !.parentTrace =
                    ChildTrace(this, trace, childCreationInfo)])
    /\ origin' = Append(origin, [parent |-> self, trace |-> trace, prefix |-> prefix])
    /\ call' = [Returned("child", self, "", "") EXCEPT !.result = Len(loggers) + 1]
    /\ stdout' = <<>>
    /\ UNCHANGED << config, now, files, started >>

\* ---------------------------------------------------------------- pipeline
\* The number of lines in all the log files.
TotalLines(fileMap) ==
    Cardinality({ e \in (DOMAIN fileMap) \X (1..(MaxLines + 1)) :
                    e[2] <= Len(fileMap[e[1]]) })

\* private __logToFile(message): the files it leaves and the error it raises
\* ("" when it returns), given what the file system does.  mkdirSync with
\* recursive: true leaves no state the logger reads back, so the existence
\* of the directory is not kept.
__logToFile(message, fs) ==
    LET logFile == LogFile(logDirectory, now)
    IN  IF ~enableFileLogging
        THEN [files |-> files, threw |-> ""]
        ELSE IF fs # "ok"
        THEN [files |-> files, threw |-> fs \o ": permission denied"]
        ELSE [files |-> [files EXCEPT ![logFile] = Append(@, message \o "\n")],
              threw |-> ""]

\* Admitted, were the filter to compare with the default level instead of
\* the configured one.
AdmittedAgainstDefault(level) ==
    ~JsLess(LoggerLevels(level), LoggerLevels("INFO"))

\* The level filter at the head of __log: TRUE when the call goes on.
Admitted(level) ==
    ~JsLess(LoggerLevels(level), LoggerLevels(globalLogLevel))

\* ToFile, were WARN sent to the file as well.
ToFileWithWarn(level) == Includes(<<"WARN", "ERROR", "FATAL">>, <<level>>)

\* ['ERROR', 'FATAL'].includes(level)
ToFile(level) == Includes(<<"ERROR", "FATAL">>, <<level>>)

\* The arguments of the console.log call of __log.
ConsoleArgs(this, level, messages, color, bgColor, timestamp, info) ==
    << bgColor \o color \o "\n" \o timestamp \o " |",
       PadStart(level, 10),
       "\n|---",
       info.fileName,
       "\n|---",
       info.method,
       IF OptTruthy(this.prefix) THEN "\n|--- " \o this.prefix[1] ELSE "",
       "\n" \o LoggerColors("Reset") \o LoggerColors("Reset") >>
    \o messages \o << "\n" >>

\* The line __log hands to __logToFile.
LogMessage(this, level, messages, timestamp, info) ==
    timestamp \o " | " \o level \o " | " \o info.fileName \o " | " \o info.method
    \o (IF OptTruthy(this.prefix) THEN " | " \o this.prefix[1] ELSE "")
    \o " | " \o Join(messages)

\* private __log(level, messages, color, bgColor), called by the public
\* method `op` (with label `arg`, for a timer) whose caller's stack is `stack`.
__log(op, arg, self, level, messages, color, bgColor, stack, fs) ==
    LET this == loggers[self]
    IN  IF ~Admitted(level)
        THEN /\ stdout' = <<>>
             /\ files' = files
             /\ call' = Returned(op, self, level, arg)
        ELSE LET timestamp == ToISOString(now)
                 info == __getCallerInfo(<<SelfFrame>> \o stack)
                 sink == IF ToFile(level)
                         THEN __logToFile(
                                  LogMessage(this, level, messages, timestamp, info), fs)
                         ELSE [files |-> files, threw |-> ""]
             IN  /\ TotalLines(sink.files) <= MaxLines
                 /\ stdout' = << ConsoleArgs(this, level, messages, color, bgColor,
                                             timestamp, info) >>
                 /\ files' = sink.files
                 /\ call' = IF sink.threw = "" THEN Returned(op, self, level, arg)
                            ELSE Threw(op, self, level, arg, sink.threw)

\* The trace lines log() collects, in traversal order (newest link first).
RECURSIVE TraceMessages(_)
TraceMessages(currentTrace) ==
    IF currentTrace = None THEN <<>>
    ELSE << "Trace: Parent created at "
              \o currentTrace[1].parentCreationInfo.fileName \o ", "
              \o "Child created at " \o currentTrace[1].childCreationInfo.fileName >>
         \o TraceMessages(currentTrace[1].inheritedTrace)

\* LogMessages, were the collected lines not reversed.
LogMessagesUnreversed(this, messages) ==
    IF this.parentTrace # None
    THEN messages \o TraceMessages(this.parentTrace)
    ELSE messages

\* The message list log() hands to __log.
LogMessages(this, messages) ==
    IF this.parentTrace # None
    THEN messages \o Reverse(TraceMessages(this.parentTrace))
    ELSE messages

\* log(level, ...messages)
log(self, level, messages, stack, fs) ==
    /\ __log("log", "", self, level, LogMessages(loggers[self], messages),
             LoggerColors("Reset"), LoggerColors("Reset"), stack, fs)
    /\ UNCHANGED << config, loggers, now, started, origin >>

\* The message list a severity method hands to __log.
ShortcutMessages(this, messages) == messages

Shortcut(op, self, level, messages, color, bgColor, stack, fs) ==
    /\ __log(op, "", self, level, ShortcutMessages(loggers[self], messages),
             LoggerColors(color), LoggerColors(bgColor), stack, fs)
    /\ UNCHANGED << config, loggers, now, started, origin >>

info(self, messages, stack, fs) ==
    Shortcut("info", self, "INFO", messages, "FgCyan", "BgBlack", stack, fs)

warn(self, messages, stack, fs) ==
    Shortcut("warn", self, "WARN", messages, "FgYellow", "BgBlack", stack, fs)

error(self, messages, stack, fs) ==
    Shortcut("error", self, "ERROR", messages, "FgRed", "BgBlack", stack, fs)

success(self, messages, stack, fs) ==
    Shortcut("success", self, "SUCCESS", messages, "FgGreen", "BgBlack", stack, fs)

debug(self, messages, stack, fs) ==
    Shortcut("debug", self, "DEBUG", messages, "FgBlue", "BgBlack", stack, fs)

verbose(self, messages, stack, fs) ==
    Shortcut("verbose", self, "VERBOSE", messages, "FgMagenta", "BgBlack", stack, fs)

fatal(self, messages, stack, fs) ==
    Shortcut("fatal", self, "FATAL", messages, "FgWhite", "BgRed", stack, fs)

silly(self, messages, stack, fs) ==
    Shortcut("silly", self, "SILLY", messages, "FgGray", "BgBlack", stack, fs)

http(self, messages, stack, fs) ==
    Shortcut("http", self, "HTTP", messages, "FgMagenta", "BgBlack", stack, fs)

trace(self, messages, stack, fs) ==
    Shortcut("trace", self, "TRACE", messages, "FgWhite", "BgBlack", stack, fs)

\* ------------------------------------------------------------------ timers
\* this.timeMap[label]: an own property, else what Object.prototype has.
TimeMapGet(timeMap, label) ==
    IF label \in DOMAIN timeMap THEN Num(timeMap[label]) ELSE ObjectPrototype(label)

\* delete this.timeMap[label]
TimeMapDelete(timeMap, label) ==
    [l \in DOMAIN timeMap \ {label} |-> timeMap[l]]

\* Date.now() - startTime
Duration(startTime) ==
    IF startTime.t = "number" THEN Num(now - startTime.n) ELSE NaN

\* timeStart(label)
timeStart(self, label) ==
    /\ loggers' = [loggers EXCEPT ![self].timeMap =
                      [l \in DOMAIN @ \cup {label} |-> IF l = label THEN now ELSE @[l]]]
    /\ started' = {e \in started : ~(e[1] = self /\ e[2] = label)}
                     \cup {<<self, label, now>>}
    /\ call' = Returned("timeStart", self, "", label)
    /\ stdout' = <<>>
    /\ UNCHANGED << config, now, files, origin >>

\* timeEnd(label)
timeEnd(self, label, stack, fs) ==
    LET this == loggers[self]
        startTime == TimeMapGet(this.timeMap, label)
    IN  /\ IF Truthy(startTime)
           THEN /\ __log("timeEnd", label, self, "TIME",
                         << label \o ": " \o NumToStr(Duration(startTime)) \o "ms" >>,
                         LoggerColors("FgGreen"), LoggerColors("BgBlack"), stack, fs)
                /\ loggers' = [loggers EXCEPT ![self].timeMap =
                                  TimeMapDelete(@, label)]
           ELSE /\ __log("timeEnd", label, self, "TIME",
                         << label \o ": " \o IntToStr(-1) \o "ms" >>,
                         LoggerColors("FgRed"), LoggerColors("BgBlack"), stack, fs)
                /\ loggers' = loggers
        /\ started' = {e \in started : ~(e[1] = self /\ e[2] = label)}
        /\ UNCHANGED << config, now, origin >>

\* The clock advances between calls.
Tick ==
    /\ now < MaxNow
    /\ now' = now + 1
    /\ UNCHANGED << config, loggers, stdout, files, call, started, origin >>

\* ----------------------------------------------------------- specification
\* Every operation, with every argument.
Next ==
    \/ \E level \in LevelArgs : setLogLevel(level)
    \/ \E directory \in Directories : setLogDirectory(directory)
    \/ \E enable \in BOOLEAN : setFileLogging(enable)
    \/ \E prefix \in CtorPrefixes, stack \in UserStacks :
          Len(loggers) < MaxLoggers /\ constructor(prefix, stack)
    \/ \E self \in Instances, prefix \in ChildPrefixes, tr \in BOOLEAN,
          stack \in UserStacks :
            Len(loggers) < MaxLoggers /\ child(self, prefix, tr, stack)
    \/ \E self \in Instances, level \in LevelArgs, messages \in MessageLists,
          stack \in UserStacks, fs \in FsOutcomes :
            log(self, level, messages, stack, fs)
    \/ \E self \in Instances, messages \in MessageLists, stack \in UserStacks,
          fs \in FsOutcomes :
            \/ info(self, messages, stack, fs)
            \/ warn(self, messages, stack, fs)
            \/ error(self, messages, stack, fs)
            \/ success(self, messages, stack, fs)
            \/ debug(self, messages, stack, fs)
            \/ verbose(self, messages, stack, fs)
            \/ fatal(self, messages, stack, fs)
            \/ silly(self, messages, stack, fs)
            \/ http(self, messages, stack, fs)
            \/ trace(self, messages, stack, fs)
    \/ \E self \in Instances, label \in Labels : timeStart(self, label)
    \/ \E self \in Instances, label \in Labels, stack \in UserStacks,
          fs \in FsOutcomes : timeEnd(self, label, stack, fs)
    \/ Tick

Spec == Init /\ [][Next]_vars

\* The level filter: instances made by the constructor before and after
\* setLogLevel, every level through every entry point, under every minimum
\* setLogLevel can be asked for.  File logging stays as configured at start.
NextGate ==
    \/ \E level \in LevelArgs : setLogLevel(level)
    \/ Len(loggers) < MaxPipelineLoggers /\ constructor(None, MainStack)
    \/ \E self \in Instances, level \in LevelArgs, messages \in MessageLists :
          log(self, level, messages, JobStack, "ok")
    \/ \E self \in Instances, messages \in MessageLists :
            \/ info(self, messages, JobStack, "ok")
            \/ warn(self, messages, JobStack, "ok")
            \/ error(self, messages, JobStack, "ok")
            \/ success(self, messages, JobStack, "ok")
            \/ debug(self, messages, JobStack, "ok")
            \/ verbose(self, messages, JobStack, "ok")
            \/ fatal(self, messages, JobStack, "ok")
            \/ silly(self, messages, JobStack, "ok")
            \/ http(self, messages, JobStack, "ok")
            \/ trace(self, messages, JobStack, "ok")
    \/ \E self \in Instances, label \in Labels : timeEnd(self, label, JobStack, "ok")

SpecGate == Init /\ [][NextGate]_vars

\* The file sink: every mutator, every level through every entry point, and
\* a file system that can fail where the code touches it.  The minimum is
\* INFO or FATAL, so that ERROR is admitted under one and dropped under the
\* other.
NextSink ==
    \/ \E level \in {"INFO", "FATAL"} : setLogLevel(level)
    \/ \E directory \in Directories : setLogDirectory(directory)
    \/ \E enable \in BOOLEAN : setFileLogging(enable)
    \/ Len(loggers) < MaxPipelineLoggers /\ constructor(Some("A"), MainStack)
    \/ \E self \in Instances, level \in LevelArgs, messages \in MessageLists :
          \E fs \in (IF ToFile(level) THEN FsOutcomes ELSE {"ok"}) :
            log(self, level, messages, JobStack, fs)
    \/ \E self \in Instances, messages \in MessageLists :
            \/ info(self, messages, JobStack, "ok")
            \/ warn(self, messages, JobStack, "ok")
            \/ success(self, messages, JobStack, "ok")
            \/ debug(self, messages, JobStack, "ok")
            \/ verbose(self, messages, JobStack, "ok")
            \/ silly(self, messages, JobStack, "ok")
            \/ http(self, messages, JobStack, "ok")
            \/ trace(self, messages, JobStack, "ok")
    \/ \E self \in Instances, messages \in MessageLists, fs \in FsOutcomes :
            \/ error(self, messages, JobStack, fs)
            \/ fatal(self, messages, JobStack, fs)
    \/ \E self \in Instances : timeEnd(self, "x", JobStack, "ok")

SpecSink == Init /\ [][NextSink]_vars

\* Instances and their trace chains: a tree of loggers grown by child()
\* from roots, logging through log() and through the shortcuts that do not
\* reach the file sink.
NextTrace ==
    \/ \E prefix \in CtorPrefixes :
          Len(loggers) < MaxLoggers /\ constructor(prefix, MainStack)
    \/ \E self \in Instances, prefix \in ChildPrefixes, tr \in BOOLEAN :
          Len(loggers) < MaxLoggers /\ child(self, prefix, tr, JobStack)
    \/ \E self \in Instances, level \in {"DEBUG", "INFO", "WARN"},
          messages \in MessageLists : log(self, level, messages, JobStack, "ok")
    \/ \E self \in Instances, messages \in MessageLists :
            \/ info(self, messages, JobStack, "ok")
            \/ warn(self, messages, JobStack, "ok")
            \/ debug(self, messages, JobStack, "ok")

SpecTrace == Init /\ [][NextTrace]_vars

\* Timers: instances (a root and its children), the clock, and the level
\* filter the TIME line goes through.
NextTimer ==
    \/ \E level \in {"INFO", "WARN"} : setLogLevel(level)
    \/ Len(loggers) < MaxTimerLoggers /\ constructor(None, MainStack)
    \/ \E self \in Instances :
          Len(loggers) < MaxTimerLoggers /\ child(self, None, FALSE, JobStack)
    \/ \E self \in Instances, label \in Labels : timeStart(self, label)
    \/ \E self \in Instances, label \in Labels : timeEnd(self, label, JobStack, "ok")
    \/ Tick

SpecTimer == Init /\ [][NextTimer]_vars

\* ------------------------------------------------------------- properties
Shortcuts ==
    {"info", "warn", "error", "success", "debug", "verbose", "fatal", "silly",
     "http", "trace"}

\* The calls that go through __log.
LogCall(c) == c.op \in Shortcuts \cup {"log", "timeEnd"}

\* The message list of a console.log call of __log: what lies between the
\* eight heading arguments and the closing newline.
Messages(args) == SubSeq(args, 9, Len(args) - 1)

\* One line was appended to the file of the current log directory, and no
\* other file changed.
OneLineAppended ==
    LET logFile == LogFile(logDirectory, now)
    IN  /\ Len(files'[logFile]) = Len(files[logFile]) + 1
        /\ SubSeq(files'[logFile], 1, Len(files[logFile])) = files[logFile]
        /\ \A f \in DOMAIN files \ {logFile} : files'[f] = files[f]

\* C1: a call of a severity method, of log() with a recognized level, or of
\* timeEnd whose level ranks below the global minimum writes nothing to the
\* console and nothing to a file; and the global minimum changes only by a
\* setLogLevel that returns, to the level that call was given.
C1_AdmissionGate ==
    [][ now' = now =>
          /\ ( /\ LogCall(call')
               /\ IsLevel(call'.level)
               /\ IsLevel(globalLogLevel)
               /\ Rank(call'.level) < Rank(globalLogLevel) )
             => (stdout' = <<>> /\ files' = files /\ call'.threw = "")
          /\ globalLogLevel' =
                IF call'.op = "setLogLevel" /\ call'.threw = ""
                THEN call'.arg ELSE globalLogLevel ]_vars

\* C1 witness: an ERROR call through log() dropped under the minimum FATAL
\* while file logging is on.
C1_Witness ==
    /\ call.op = "log"
    /\ call.level = "ERROR"
    /\ globalLogLevel = "FATAL"
    /\ enableFileLogging
    /\ stdout = <<>>

\* A call that wrote to the console (an admitted one), at ERROR or FATAL,
\* while file logging is enabled.
FileLineDue ==
    /\ LogCall(call')
    /\ stdout' # <<>>
    /\ call'.level \in {"ERROR", "FATAL"}
    /\ enableFileLogging

\* C2 (as stated): every admitted ERROR or FATAL call made while file logging
\* is enabled appends exactly one line, and no other call appends anything.
C2_Original ==
    [][ now' = now => IF FileLineDue THEN OneLineAppended ELSE files' = files ]_vars

\* C2 (amended): every admitted ERROR or FATAL call made while file logging is
\* enabled appends exactly one line unless the file system raises, and then
\* it appends nothing; no other call appends anything.
C2_FileSink ==
    [][ now' = now =>
          IF FileLineDue /\ call'.threw = "" THEN OneLineAppended
          ELSE files' = files ]_vars

\* C2 witness: after the log directory was changed, a fatal() call has left
\* its line in the file of the new directory.
C2_Witness ==
    /\ call.op = "fatal"
    /\ call.threw = ""
    /\ logDirectory = "/tmp/logs"
    /\ Len(files[LogFile("/tmp/logs", now)]) = 1

\* C3: setLogLevel with a name that is not one of the eleven severities
\* raises and leaves the global settings as they were.
C3_InvalidLevelRejected ==
    [][ (now' = now /\ call'.op = "setLogLevel" /\ ~IsLevel(call'.arg))
          => (call'.threw # "" /\ config' = config) ]_vars

\* C4: log() with a level name that is not a recognized severity raises and
\* writes nothing to the console.
C4_LogInvalidLevelFails ==
    (call.op = "log" /\ ~IsLevel(call.level))
        => (call.threw # "" /\ stdout = <<>>)

\* The trace lines of instance i as its creation history gives them, oldest
\* link first.
RECURSIVE ExpectedTrace(_)
ExpectedTrace(i) ==
    IF ~origin[i].trace THEN <<>>
    ELSE ExpectedTrace(origin[i].parent) \o
         << "Trace: Parent created at "
              \o loggers[origin[i].parent].creationInfo.fileName
              \o ", Child created at " \o loggers[i].creationInfo.fileName >>

\* The number of consecutive trace-enabled child() edges that end at
\* instance i, in the creation history org.
RECURSIVE Depth(_, _)
Depth(org, i) == IF ~org[i].trace THEN 0 ELSE 1 + Depth(org, org[i].parent)

\* The number of links of a trace chain.
RECURSIVE ChainLength(_)
ChainLength(parentTrace) ==
    IF parentTrace = None THEN 0
    ELSE 1 + ChainLength(parentTrace[1].inheritedTrace)

\* C5: an admitted log() call of an instance whose chain has n >= 1 links
\* emits the caller's fragments and then exactly n trace lines, one per
\* link, oldest ancestor first, each naming the creation locations of the
\* link's parent and child.
C5_TraceLines ==
    (call.op = "log" /\ stdout # <<>> /\ Depth(origin, call.self) >= 1)
        => /\ Len(ExpectedTrace(call.self)) = Depth(origin, call.self)
           /\ \E m \in MessageLists :
                 Messages(stdout[1]) = m \o ExpectedTrace(call.self)

\* C5 witness: an admitted log() call of a grandchild, two links deep, whose
\* two trace lines differ.
C5_Witness ==
    /\ call.op = "log"
    /\ stdout # <<>>
    /\ Depth(origin, call.self) = 2
    /\ ExpectedTrace(call.self)[1] # ExpectedTrace(call.self)[2]

\* C6: an admitted call of a severity shortcut on an instance with a trace
\* chain emits the same message list as log(): the fragments and then the
\* chain's trace lines.
C6_ShortcutsRenderTrace ==
    (call.op \in Shortcuts /\ stdout # <<>> /\ loggers[call.self].parentTrace # None)
        => \E m \in MessageLists :
              Messages(stdout[1]) = m \o ExpectedTrace(call.self)

\* C7: an instance made by the constructor or by child(..., false) has no
\* trace link; the chain of one made by child(..., true) is one link longer
\* than its parent's, so the chain length is the number of consecutive
\* trace-enabled edges ending at the instance; and no call changes the
\* prefix, creation info or chain of an existing instance.
C7_ChainStructure ==
    [][ /\ \A i \in 1..Len(loggers') :
              /\ ChainLength(loggers'[i].parentTrace) = Depth(origin', i)
              /\ ~origin'[i].trace => loggers'[i].parentTrace = None
              /\ origin'[i].trace =>
                    /\ origin'[i].parent \in 1..(i - 1)
                    /\ ChainLength(loggers'[i].parentTrace) =
                         1 + ChainLength(loggers'[origin'[i].parent].parentTrace)
        /\ \A i \in 1..Len(loggers) :
              /\ i <= Len(loggers')
              /\ loggers'[i].prefix = loggers[i].prefix
              /\ loggers'[i].creationInfo = loggers[i].creationInfo
              /\ loggers'[i].parentTrace = loggers[i].parentTrace ]_vars

\* C7 witness: a child made with trace = false from a parent that has a
\* trace link, and so has none itself.
C7_Witness ==
    \E i \in Instances :
        /\ origin[i].parent # 0
        /\ ~origin[i].trace
        /\ loggers[origin[i].parent].parentTrace # None
        /\ loggers[i].parentTrace = None

\* C8: the prefix of a child is parent.prefix + " -> " + segment only when
\* the parent has a prefix and a segment is given; with no segment it is the
\* parent's prefix, never "A -> undefined".
C8_ChildPrefix ==
    \A i \in Instances :
        origin[i].parent # 0 =>
            LET parentPrefix == loggers[origin[i].parent].prefix
                segment == origin[i].prefix
            IN  loggers[i].prefix =
                    IF OptTruthy(parentPrefix) /\ segment # None
                    THEN Some(parentPrefix[1] \o " -> " \o segment[1])
                    ELSE IF OptTruthy(parentPrefix) THEN parentPrefix
                    ELSE segment

\* C9: timeEnd(x) raises nothing, removes x from the instance's timers and
\* leaves every other instance alone; its line is "x: <n>ms" with n >= 0 the
\* time since the latest timeStart(x) of the instance when one is pending,
\* and "x: -1ms" otherwise.
C9_OneShotTimers ==
    [][ (now' = now /\ call'.op = "timeEnd") =>
          LET i == call'.self
              x == call'.arg
              pending == {e \in started : e[1] = i /\ e[2] = x}
          IN  /\ call'.threw = ""
              /\ call'.result = i
              /\ x \notin DOMAIN loggers'[i].timeMap
              /\ \A e \in started' : ~(e[1] = i /\ e[2] = x)
              /\ \A j \in Instances \ {i} : loggers'[j] = loggers[j]
              /\ stdout' # <<>> =>
                    \E n \in (IF pending = {} THEN {-1}
                              ELSE {now - e[3] : e \in pending}) :
                        /\ (pending # {} => n >= 0)
                        /\ Messages(stdout'[1]) = << x \o ": " \o IntToStr(n) \o "ms" >>
      ]_vars

\* C10: a log call with a recognized level returns the instance and raises
\* nothing, also when the file sink fails.
C10_LogNeverRaises ==
    (LogCall(call) /\ IsLevel(call.level))
        => (call.threw = "" /\ call.result = call.self)

====
